---- MODULE Spec2Model ----
(***************************************************************************)
(* A model of the jsdoc-generator VS Code extension (src/src/extension.ts): *)
(* the completion provider, the four command handlers over the lazily      *)
(* instantiated JsdocGenerator, and getConfig.  The generator's batch run  *)
(* and the comment renderer (JsdocGenerator.ts) follow spec.md 4.3-4.5.    *)
(***************************************************************************)
EXTENDS Integers, Sequences, FiniteSets, TLC

VARIABLES
  \* completion provider
  line, position, completionItems,
  \* command shim
  jsdocGenerator, constructions, activeTextEditor, invocations, errorMessages,
  \* configuration
  settings, configReads,
  \* batch run of the generator (spec.md 4.5)
  documents, run,
  \* comment renderer (spec.md 4.4)
  tags, renderConfig, rendered

vars == <<line, position, completionItems,
          jsdocGenerator, constructions, activeTextEditor, invocations, errorMessages,
          settings, configReads,
          documents, run,
          tags, renderConfig, rendered>>

completionVars == <<line, position, completionItems>>
commandVars == <<jsdocGenerator, constructions, activeTextEditor, invocations, errorMessages>>
configVars == <<settings, configReads>>
batchVars == <<documents, run>>
renderVars == <<tags, renderConfig, rendered>>

\* what the actions of one part leave alone
notCompletion == <<commandVars, configVars, batchVars, renderVars>>
notCommand == <<completionVars, configVars, batchVars, renderVars>>
notConfig == <<completionVars, commandVars, batchVars, renderVars>>
notBatch == <<completionVars, commandVars, configVars, renderVars>>
notRender == <<completionVars, commandVars, configVars, batchVars>>

Null == "null"

Max(S) == CHOOSE x \in S : \A y \in S : y <= x
Min(S) == CHOOSE x \in S : \A y \in S : x <= y

(***************************************************************************)
(* Bounds                                                                  *)
(***************************************************************************)
MaxLineLen == 5
MaxInvocations == 2
MaxConfigInvocations == 1
MaxDocs == 2
MaxDecls == 2
MaxTags == 2
MaxWidth == 2

(***************************************************************************)
(* Regular expressions, matched as a backtracking engine matches them.     *)
(* A pattern is a sequence of items [set, star]; Fail is the failed match. *)
(***************************************************************************)
Fail == 0 - 1

\* \s of the regular expressions
Whitespace == {" ", "\t"}
\* the characters the modelled lines are made of
LineChars == {"/", "*", " ", "a"}

Lit(c) == [set |-> {c}, star |-> FALSE]
Star(S) == [set |-> S, star |-> TRUE]

\* /^\s*\/\*\*\s*$/
OfferPattern == <<Star(Whitespace), Lit("/"), Lit("*"), Lit("*"), Star(Whitespace)>>
\* /\/\**\s*$/
OpenerPattern == <<Lit("/"), Star({"*"}), Star(Whitespace)>>
\* /^\s*\**\//
CloserPattern == <<Star(Whitespace), Star({"*"}), Lit("/")>>

\* The position after the match of items k.. of re against s from position i
\* (1-based), found in the engine's order: a starred item takes as many
\* characters as it can and gives them back one at a time.  atEnd is the $.
RECURSIVE Greedy(_, _, _, _, _)
Greedy(re, k, s, i, atEnd) ==
  IF k > Len(re)
    THEN IF atEnd /\ i # Len(s) + 1 THEN Fail ELSE i
    ELSE LET here == i <= Len(s) /\ s[i] \in re[k].set
         IN IF re[k].star
              THEN LET more == IF here THEN Greedy(re, k, s, i + 1, atEnd) ELSE Fail
                   IN IF more # Fail THEN more ELSE Greedy(re, k + 1, s, i, atEnd)
              ELSE IF here THEN Greedy(re, k + 1, s, i + 1, atEnd) ELSE Fail

\* match's null
NoMatch == [found |-> FALSE, text |-> <<>>]

\* String.prototype.match without the g flag: the leftmost match with its
\* text, or NoMatch.  atStart is the ^.
RegexMatch(re, atStart, atEnd, s) ==
  LET from == IF atStart THEN {1} ELSE 1..(Len(s) + 1)
      hits == {i \in from : Greedy(re, 1, s, i, atEnd) # Fail}
  IN IF hits = {} THEN NoMatch
     ELSE LET i == Min(hits)
          IN [found |-> TRUE, text |-> SubSeq(s, i, Greedy(re, 1, s, i, atEnd) - 1)]

\* String.prototype.slice(0, n) and slice(n) for 0 <= n
SliceTo(s, n) == SubSeq(s, 1, IF n < Len(s) THEN n ELSE Len(s))
SliceFrom(s, n) == SubSeq(s, n + 1, Len(s))

(***************************************************************************)
(* JsdocCompletionItem and the completion provider                         *)
(***************************************************************************)
\* Position.translate(lineDelta, characterDelta)
Translate(pos, lineDelta, characterDelta) ==
  [line |-> pos.line + lineDelta, character |-> pos.character + characterDelta]

IsBefore(p, q) == p.line < q.line \/ (p.line = q.line /\ p.character < q.character)

\* new Range(start, end): the earlier position becomes the start
Range(p, q) == IF IsBefore(q, p) THEN [start |-> q, end |-> p] ELSE [start |-> p, end |-> q]

RetrieveRangeNoSuffix(ln, pos) ==
  LET prefix == RegexMatch(OpenerPattern, FALSE, TRUE, SliceTo(ln, pos.character))
      start == Translate(pos, 0, IF prefix.found THEN 0 - Len(prefix.text) ELSE 0)
  IN Range(start, pos)

RetrieveRange(ln, pos) ==
  LET prefix == RegexMatch(OpenerPattern, FALSE, TRUE, SliceTo(ln, pos.character))
      suffix == RegexMatch(CloserPattern, TRUE, FALSE, SliceFrom(ln, pos.character))
      start == Translate(pos, 0, IF prefix.found THEN 0 - Len(prefix.text) ELSE 0)
  IN Range(start, Translate(pos, 0, IF suffix.found THEN Len(suffix.text) ELSE 0))

JsdocCompletionItem(ln, pos) ==
  [label |-> "/** Autogenerated JSDoc */",
   insertText |-> "",
   range |-> RetrieveRange(ln, pos),
   command |-> "jsdoc-generator.generateJsdoc"]

OfferAnywhereInLine(ln, pos) ==
  RegexMatch(OfferPattern, FALSE, TRUE, SliceTo(ln, pos.character)).found

Offered(ln, pos) ==
  RegexMatch(OfferPattern, TRUE, TRUE, SliceTo(ln, pos.character)).found

\* provideCompletionItems(document, position, _)
ProvideCompletionItems ==
  /\ completionItems.returned = "pending"
  /\ completionItems' = IF Offered(line, position)
                          THEN [returned |-> "list",
                                items |-> <<JsdocCompletionItem(line, position)>>]
                          ELSE [returned |-> Null, items |-> <<>>]
  /\ UNCHANGED <<line, position>>
  /\ UNCHANGED notCompletion

Lines == UNION {[1..n -> LineChars] : n \in 0..MaxLineLen}

\* the line numbers the cursor is put on
CursorLines == {0, 3}

CompletionIdle ==
  /\ line = <<>>
  /\ position = [line |-> 0, character |-> 0]
  /\ completionItems = [returned |-> "pending", items |-> <<>>]

InitCompletion ==
  /\ line \in Lines
  /\ position \in [line : CursorLines, character : 0..MaxLineLen]
  /\ position.character <= Len(line)
  /\ completionItems = [returned |-> "pending", items |-> <<>>]

(***************************************************************************)
(* The command handlers registered by activate                             *)
(***************************************************************************)
\* `let jsdocGenerator: JsdocGenerator;` holds undefined until the first
\* construction; the instances are numbered from 1
Undefined == 0

\* vscode.window.activeTextEditor when no editor is selected, and an absent
\* command argument
NoEditor == "undefined"
NoArg == "undefined"

Editors == {"editorA"}
Uris == {"uriA"}

\* the objects an invocation touches, as <<kind, id>>
GeneratorVar == <<"jsdocGenerator", 0>>
ActiveEditorVar == <<"activeTextEditor", 0>>
ProgressOf(i) == <<"progress", i>>
TokenOf(i) == <<"token", i>>
TextFileOf(i) == <<"TextFile", i>>

SharedWorkspaceEdit(i) == <<"WorkspaceEdit", 0>>

\* new vscode.WorkspaceEdit() of invocation i
NewWorkspaceEdit(i) == <<"WorkspaceEdit", i>>

NoTarget == [kind |-> "none", of |-> NoArg, workspaceEdit |-> <<"none", 0>>]
NoCall == [op |-> "none", progress |-> ProgressOf(0), token |-> TokenOf(0),
           target |-> NoTarget, generator |-> Undefined]

\* the next invocation's number
NextInvocation == Len(invocations) + 1

AlwaysInstantiateJsdocGenerator ==
  /\ jsdocGenerator' = constructions + 1
  /\ constructions' = constructions + 1

\* lazyInstantiateJsdocGenerator()
LazyInstantiateJsdocGenerator ==
  IF jsdocGenerator = Undefined
    THEN /\ jsdocGenerator' = constructions + 1
         /\ constructions' = constructions + 1
    ELSE UNCHANGED <<jsdocGenerator, constructions>>

\* what lazyInstantiateJsdocGenerator reads and writes
LazyReads == {GeneratorVar}
LazyWrites == IF jsdocGenerator' # jsdocGenerator THEN {GeneratorVar} ELSE {}

\* vscode.window.withProgress({..., cancellable: true}, task) with a task that
\* called the generator: the task's promise is pending.  The task's body has
\* no await, so it runs as one step; sawEditor, reads and writes record what
\* it read and wrote.
Called(cmd, arg, title, op, target, reads, writes) ==
  LET i == NextInvocation
  IN /\ invocations' = Append(invocations,
          [cmd |-> cmd, arg |-> arg, title |-> title, cancellable |-> TRUE,
           progress |-> ProgressOf(i), token |-> TokenOf(i),
           call |-> [op |-> op, progress |-> ProgressOf(i), token |-> TokenOf(i),
                     target |-> target, generator |-> jsdocGenerator'],
           calls |-> 1, error |-> Null, task |-> "pending", cancelled |-> FALSE,
           sawEditor |-> activeTextEditor,
           reads |-> LazyReads \cup reads \cup {GeneratorVar, ProgressOf(i), TokenOf(i)},
           writes |-> LazyWrites \cup writes \cup {ProgressOf(i), TokenOf(i)}])
     /\ UNCHANGED errorMessages

\* ... with a task that showed an error message and returned Promise.resolve()
Failed(cmd, arg, title, message, reads) ==
  LET i == NextInvocation
  IN /\ invocations' = Append(invocations,
          [cmd |-> cmd, arg |-> arg, title |-> title, cancellable |-> TRUE,
           progress |-> ProgressOf(i), token |-> TokenOf(i),
           call |-> NoCall,
           calls |-> 0, error |-> message, task |-> "resolved", cancelled |-> FALSE,
           sawEditor |-> activeTextEditor,
           reads |-> LazyReads \cup reads,
           writes |-> LazyWrites \cup {ProgressOf(i), TokenOf(i)}])
     /\ errorMessages' = Append(errorMessages, message)

EditorTarget == [kind |-> "editor", of |-> activeTextEditor, workspaceEdit |-> <<"none", 0>>]

GenerateJsdocUnchecked ==
  /\ Len(invocations) < MaxInvocations
  /\ LazyInstantiateJsdocGenerator
  /\ Called("generateJsdoc", NoArg, "JSDocGen (node)", "generateJsdoc",
            EditorTarget, {ActiveEditorVar}, {})
  /\ UNCHANGED activeTextEditor
  /\ UNCHANGED notCommand

\* jsdoc-generator.generateJsdoc
GenerateJsdoc ==
  /\ Len(invocations) < MaxInvocations
  /\ LazyInstantiateJsdocGenerator
  /\ IF activeTextEditor # NoEditor
       THEN Called("generateJsdoc", NoArg, "JSDocGen (node)", "generateJsdoc",
                   EditorTarget, {ActiveEditorVar}, {})
       ELSE Failed("generateJsdoc", NoArg, "JSDocGen (node)",
                   "Unable to generate JSDoc: no editor has been selected.",
                   {ActiveEditorVar})
  /\ UNCHANGED activeTextEditor
  /\ UNCHANGED notCommand

\* new TextFile(new vscode.WorkspaceEdit(), file)
TextFileOfUri(i, file) ==
  [kind |-> "TextFile", of |-> file, workspaceEdit |-> NewWorkspaceEdit(i)]

\* new TextFile(vscode.window.activeTextEditor)
TextFileOfEditor == [kind |-> "TextFile", of |-> activeTextEditor, workspaceEdit |-> <<"none", 0>>]

GenerateJsdocFileEditorFirst(file) ==
  /\ Len(invocations) < MaxInvocations
  /\ LazyInstantiateJsdocGenerator
  /\ IF activeTextEditor # NoEditor
       THEN Called("generateJsdocFile", file, "JSDocGen (file)", "generateJsdocFile",
                   TextFileOfEditor, {ActiveEditorVar}, {TextFileOf(NextInvocation)})
       ELSE IF file # NoArg
         THEN Called("generateJsdocFile", file, "JSDocGen (file)", "generateJsdocFile",
                     TextFileOfUri(NextInvocation, file), {},
                     {TextFileOfUri(NextInvocation, file).workspaceEdit,
                      TextFileOf(NextInvocation)})
         ELSE Failed("generateJsdocFile", file, "JSDocGen (file)",
                     "Unable to generate JSDoc: no valid file has been selected.",
                     {ActiveEditorVar})
  /\ UNCHANGED activeTextEditor
  /\ UNCHANGED notCommand

\* jsdoc-generator.generateJsdocFile
GenerateJsdocFile(file) ==
  /\ Len(invocations) < MaxInvocations
  /\ LazyInstantiateJsdocGenerator
  /\ IF file # NoArg
       THEN Called("generateJsdocFile", file, "JSDocGen (file)", "generateJsdocFile",
                   TextFileOfUri(NextInvocation, file), {},
                   {TextFileOfUri(NextInvocation, file).workspaceEdit,
                    TextFileOf(NextInvocation)})
       ELSE IF activeTextEditor # NoEditor
         THEN Called("generateJsdocFile", file, "JSDocGen (file)", "generateJsdocFile",
                     TextFileOfEditor, {ActiveEditorVar}, {TextFileOf(NextInvocation)})
         ELSE Failed("generateJsdocFile", file, "JSDocGen (file)",
                     "Unable to generate JSDoc: no valid file has been selected.",
                     {ActiveEditorVar})
  /\ UNCHANGED activeTextEditor
  /\ UNCHANGED notCommand

\* jsdoc-generator.generateJsdocFolder
GenerateJsdocFolder(folder) ==
  /\ Len(invocations) < MaxInvocations
  /\ LazyInstantiateJsdocGenerator
  /\ Called("generateJsdocFolder", folder, "JSDocGen (folder)", "generateJsdocWorkspace",
            [kind |-> "folder", of |-> folder, workspaceEdit |-> <<"none", 0>>], {}, {})
  /\ UNCHANGED activeTextEditor
  /\ UNCHANGED notCommand

\* jsdoc-generator.generateJsdocWorkspace
GenerateJsdocWorkspace ==
  /\ Len(invocations) < MaxInvocations
  /\ LazyInstantiateJsdocGenerator
  /\ Called("generateJsdocWorkspace", NoArg, "JSDocGen (workspace)", "generateJsdocWorkspace",
            [kind |-> "folder", of |-> NoArg, workspaceEdit |-> <<"none", 0>>], {}, {})
  /\ UNCHANGED activeTextEditor
  /\ UNCHANGED notCommand

\* the user selects another editor, or none
ChangeActiveTextEditor(e) ==
  /\ e # activeTextEditor
  /\ activeTextEditor' = e
  /\ UNCHANGED <<jsdocGenerator, constructions, invocations, errorMessages>>
  /\ UNCHANGED notCommand

\* the user presses Cancel on the notification of a running task
CancelProgress(i) ==
  /\ invocations[i].task = "pending"
  /\ ~invocations[i].cancelled
  /\ invocations' = [invocations EXCEPT ![i].cancelled = TRUE]
  /\ UNCHANGED <<jsdocGenerator, constructions, activeTextEditor, errorMessages>>
  /\ UNCHANGED notCommand

\* the promise the generator returned settles
GeneratorSettles(i) ==
  /\ invocations[i].task = "pending"
  /\ invocations' = [invocations EXCEPT ![i].task = "resolved"]
  /\ UNCHANGED <<jsdocGenerator, constructions, activeTextEditor, errorMessages>>
  /\ UNCHANGED notCommand

CommandIdle ==
  /\ jsdocGenerator = Undefined
  /\ constructions = 0
  /\ activeTextEditor = NoEditor
  /\ invocations = <<>>
  /\ errorMessages = <<>>

InitCommand ==
  /\ jsdocGenerator = Undefined
  /\ constructions = 0
  /\ activeTextEditor \in Editors \cup {NoEditor}
  /\ invocations = <<>>
  /\ errorMessages = <<>>

(***************************************************************************)
(* getConfig and the stored settings                                       *)
(***************************************************************************)
Properties == {"descriptionPlaceholder", "author"}

\* the defaultValue the callers pass: the documented default of the setting
DefaultOf(property) ==
  IF property = "descriptionPlaceholder" THEN "Description placeholder" ELSE ""

\* WorkspaceConfiguration.get finds no value
NotStored == "undefined"
StoredValues == {NotStored, "custom"}

\* `jsdoc-generator.${property}`
KeyOf(property) == <<"jsdoc-generator", property>>
Keys == {KeyOf(p) : p \in Properties}

GetDefaultOnly(property, defaultValue) == defaultValue

\* getConfig(property, defaultValue):
\* vscode.workspace.getConfiguration().get(`jsdoc-generator.${property}`, defaultValue)
GetConfig(property, defaultValue) ==
  IF settings[KeyOf(property)] = NotStored
    THEN defaultValue
    ELSE settings[KeyOf(property)]

\* the generator, running for invocation i, reads a setting
GeneratorReadsConfig(i, property) ==
  /\ i \in 1..Len(invocations)
  /\ invocations[i].task = "pending"
  /\ configReads' = [configReads EXCEPT
                       ![i][property] = @ \cup {GetConfig(property, DefaultOf(property))}]
  /\ UNCHANGED settings
  /\ UNCHANGED notConfig

\* the user edits the settings
UpdateSetting(property, value) ==
  /\ settings[KeyOf(property)] # value
  /\ settings' = [settings EXCEPT ![KeyOf(property)] = value]
  /\ UNCHANGED configReads
  /\ UNCHANGED notConfig

ConfigIdle ==
  /\ settings = [k \in Keys |-> NotStored]
  /\ configReads = <<>>

InitConfig ==
  /\ settings \in [Keys -> StoredValues]
  /\ configReads = [i \in 1..MaxConfigInvocations |-> [p \in Properties |-> {}]]

(***************************************************************************)
(* The generator's file-, folder- and workspace-scoped run (spec.md 4.1,   *)
(* 4.3, 4.5, 5): documents in the driver's order, declarations in source   *)
(* order, a cancellation checkpoint before every document and declaration, *)
(* one suspending description fetch per declaration that gets a comment.   *)
(***************************************************************************)
Documented == [comments |-> <<"existing">>]
Undocumented == [comments |-> <<>>]

Docs == UNION {[1..n -> {Documented, Undocumented}] : n \in 0..MaxDecls}

IdleRun == [pc |-> "idle", scope |-> <<>>, n |-> 1, decl |-> 1, edits |-> <<>>,
            cancelled |-> FALSE, observed |-> FALSE,
            cancelAt |-> [docs |-> 0, boundary |-> FALSE],
            lateCalls |-> 0, error |-> FALSE]

\* the document the run is at
CurrentDoc == documents[run.scope[run.n]]

\* the position after declaration decl of document n of the scope
After(n, decl) ==
  IF decl < Len(documents[run.scope[n]])
    THEN [n |-> n, decl |-> decl + 1]
    ELSE [n |-> n + 1, decl |-> 1]

SkipsNothing(d) == FALSE

\* classify rejects the declaration with AlreadyDocumented
AlreadyDocumented(d) == d.comments # <<>>

NeverObserved == FALSE

\* the checkpoint reads the token
CancellationObserved == run.cancelled

\* the scopes: one document, or the whole document set
Scopes == {<<d>> : d \in 1..Len(documents)} \cup {[i \in 1..Len(documents) |-> i]}

\* generateJsdocFile / generateJsdocWorkspace begins
StartRun(scope) ==
  /\ run.pc = "idle"
  /\ run' = [run EXCEPT !.pc = "walking", !.scope = scope]
  /\ UNCHANGED documents
  /\ UNCHANGED notBatch

\* the driver's next step, up to the next suspension
Walk ==
  /\ run.pc = "walking"
  /\ IF run.n > Len(run.scope)
       THEN run' = [run EXCEPT !.pc = "done"]
       ELSE IF CancellationObserved
         THEN run' = [run EXCEPT !.pc = "done", !.observed = TRUE]
         ELSE IF Len(CurrentDoc) = 0
           THEN run' = [run EXCEPT !.n = @ + 1, !.decl = 1]
           ELSE IF AlreadyDocumented(CurrentDoc[run.decl])
             THEN run' = [run EXCEPT !.n = After(run.n, run.decl).n,
                                     !.decl = After(run.n, run.decl).decl]
             ELSE run' = [run EXCEPT !.pc = "awaiting",
                                     !.lateCalls = @ + (IF run.observed THEN 1 ELSE 0)]
  /\ UNCHANGED documents
  /\ UNCHANGED notBatch

\* the description fetch returns (a failure is replaced by the placeholder);
\* the declaration's edit is emitted
DescriptionReturns ==
  /\ run.pc = "awaiting"
  /\ run' = [run EXCEPT !.pc = "walking",
                        !.edits = Append(@, [doc |-> run.scope[run.n], decl |-> run.decl]),
                        !.n = After(run.n, run.decl).n,
                        !.decl = After(run.n, run.decl).decl]
  /\ UNCHANGED documents
  /\ UNCHANGED notBatch

\* the user cancels the run; cancelAt notes how many documents were done
RequestCancellation ==
  /\ run.pc \in {"walking", "awaiting"}
  /\ ~run.cancelled
  /\ run' = [run EXCEPT !.cancelled = TRUE,
                        !.cancelAt = [docs |-> run.n - 1,
                                      boundary |-> run.pc = "walking" /\ run.decl = 1]]
  /\ UNCHANGED documents
  /\ UNCHANGED notBatch

\* the comments of declaration k of document d once the edits are applied
Edited(d, k) ==
  IF \E j \in 1..Len(run.edits) : run.edits[j] = [doc |-> d, decl |-> k]
    THEN <<"generated">> \o documents[d][k].comments
    ELSE documents[d][k].comments

\* the host applies the returned edits
ApplyEdits ==
  /\ run.pc = "done"
  /\ documents' = [d \in 1..Len(documents) |->
                     [k \in 1..Len(documents[d]) |-> [comments |-> Edited(d, k)]]]
  /\ run' = [run EXCEPT !.pc = "applied"]
  /\ UNCHANGED notBatch

BatchIdle ==
  /\ documents = <<>>
  /\ run = IdleRun

InitBatch ==
  /\ documents \in [1..MaxDocs -> Docs]
  /\ run = IdleRun

(***************************************************************************)
(* The comment renderer (spec.md 4.4): the tag lines of one block, laid    *)
(* out in an aligned type, name and description column.  A line is a       *)
(* sequence of characters; offsets count from 0.                           *)
(***************************************************************************)
Repeat(c, n) == [i \in 1..n |-> c]

\* the tokens of a tag line: `@param {T} N D`, `@returns {T} D`, `@async`
ParamTag(t, n) == [tag |-> <<"@", "p", "a", "r", "a", "m">>,
                   type |-> <<"{">> \o Repeat("T", t) \o <<"}">>,
                   name |-> Repeat("N", n),
                   description |-> <<"D">>]
ReturnsTag(t) == [tag |-> <<"@", "r", "e", "t", "u", "r", "n", "s">>,
                  type |-> <<"{">> \o Repeat("T", t) \o <<"}">>,
                  name |-> <<>>,
                  description |-> <<"D">>]
AsyncTag == [tag |-> <<"@", "a", "s", "y", "n", "c">>,
             type |-> <<>>, name |-> <<>>, description |-> <<>>]

TagRecords == {ParamTag(t, n) : t \in 1..MaxWidth, n \in 1..MaxWidth}
                \cup {ReturnsTag(t) : t \in 1..MaxWidth} \cup {AsyncTag}

\* the values the three column-start settings are given
ColumnStarts == {0, 10, 20}

Floor(x, minimum) == IF x < minimum THEN minimum ELSE x

\* s padded with spaces to width n
PadEnd(s, n) == IF Len(s) < n THEN s \o Repeat(" ", n - Len(s)) ELSE s

\* s, then token in the column that starts at offset col; s alone without a token
Put(s, token, col) == IF token = <<>> THEN s ELSE PadEnd(s, col) \o token

\* the width of the widest line of a block
Widest(ls) == Max({Len(ls[i]) : i \in 1..Len(ls)})

\* the lines with the tag alone, with the type put, and with the name put
TagParts(ts) == [i \in 1..Len(ts) |-> ts[i].tag]

\* the start of the type column: after the widest tag
TypeColumn(ts, cfg) == Floor(Widest(TagParts(ts)) + 1, cfg.tagValueColumnStart)

TypeParts(ts, cfg) ==
  [i \in 1..Len(ts) |-> Put(ts[i].tag, ts[i].type, TypeColumn(ts, cfg))]

NameColumnOfFirstLine(ts, cfg) ==
  Floor(Len(TypeParts(ts, cfg)[1]) + 1, cfg.tagNameColumnStart)

\* the start of the name column: after the widest line so far
NameColumn(ts, cfg) == Floor(Widest(TypeParts(ts, cfg)) + 1, cfg.tagNameColumnStart)

NameParts(ts, cfg) ==
  [i \in 1..Len(ts) |-> Put(TypeParts(ts, cfg)[i], ts[i].name, NameColumn(ts, cfg))]

\* the start of the description column: after the widest line so far
DescriptionColumn(ts, cfg) ==
  Floor(Widest(NameParts(ts, cfg)) + 1, cfg.tagDescriptionColumnStart)

\* tag line i of the block
RenderLine(i, ts, cfg) ==
  Put(NameParts(ts, cfg)[i], ts[i].description, DescriptionColumn(ts, cfg))

\* render(tags, config)
Render ==
  /\ rendered = <<>>
  /\ rendered' = [i \in 1..Len(tags) |-> RenderLine(i, tags, renderConfig)]
  /\ UNCHANGED <<tags, renderConfig>>
  /\ UNCHANGED notRender

RenderIdle ==
  /\ tags = <<>>
  /\ renderConfig = [tagValueColumnStart |-> 0, tagNameColumnStart |-> 0,
                     tagDescriptionColumnStart |-> 0]
  /\ rendered = <<>>

InitRender ==
  /\ tags \in UNION {[1..n -> TagRecords] : n \in 1..MaxTags}
  /\ renderConfig \in [tagValueColumnStart : ColumnStarts,
                       tagNameColumnStart : ColumnStarts,
                       tagDescriptionColumnStart : ColumnStarts]
  /\ rendered = <<>>

(***************************************************************************)
(* Specifications                                                          *)
(***************************************************************************)
Init == InitCompletion /\ CommandIdle /\ ConfigIdle /\ BatchIdle /\ RenderIdle

Next == ProvideCompletionItems

\* the completion provider on every line and cursor position
Spec == Init /\ [][Next]_vars

InitCommands == CompletionIdle /\ InitCommand /\ ConfigIdle /\ BatchIdle /\ RenderIdle

NextCommands ==
  \/ GenerateJsdoc
  \/ \E file \in Uris \cup {NoArg} : GenerateJsdocFile(file)
  \/ \E folder \in Uris \cup {NoArg} : GenerateJsdocFolder(folder)
  \/ GenerateJsdocWorkspace
  \/ \E e \in Editors \cup {NoEditor} : ChangeActiveTextEditor(e)
  \/ \E i \in 1..Len(invocations) : CancelProgress(i)
  \/ \E i \in 1..Len(invocations) : GeneratorSettles(i)

\* the four commands, invoked in any order while earlier ones are suspended
SpecCommands == InitCommands /\ [][NextCommands]_vars

InitSettings == CompletionIdle /\ InitCommand /\ InitConfig /\ BatchIdle /\ RenderIdle

NextSettings ==
  \/ Len(invocations) < MaxConfigInvocations /\ GenerateJsdoc
  \/ Len(invocations) < MaxConfigInvocations
       /\ \E file \in Uris \cup {NoArg} : GenerateJsdocFile(file)
  \/ Len(invocations) < MaxConfigInvocations
       /\ \E folder \in Uris \cup {NoArg} : GenerateJsdocFolder(folder)
  \/ Len(invocations) < MaxConfigInvocations /\ GenerateJsdocWorkspace
  \/ \E i \in 1..Len(invocations) : GeneratorSettles(i)
  \/ \E i \in 1..Len(invocations), p \in Properties : GeneratorReadsConfig(i, p)
  \/ \E p \in Properties, v \in StoredValues : UpdateSetting(p, v)

\* settings edited while a command's generator run reads them
SpecSettings == InitSettings /\ [][NextSettings]_vars

InitBatchRun == CompletionIdle /\ CommandIdle /\ ConfigIdle /\ InitBatch /\ RenderIdle

NextBatchRun ==
  \/ \E scope \in Scopes : StartRun(scope)
  \/ Walk
  \/ DescriptionReturns
  \/ RequestCancellation
  \/ ApplyEdits

\* one run of the generator over a document set
SpecBatchRun == InitBatchRun /\ [][NextBatchRun]_vars

InitRendering == CompletionIdle /\ CommandIdle /\ ConfigIdle /\ BatchIdle /\ InitRender

NextRendering == Render

\* the renderer on every block of tag lines
SpecRendering == InitRendering /\ [][NextRendering]_vars

(***************************************************************************)
(* Properties of the completion provider, under Spec                       *)
(***************************************************************************)
\* the text of the cursor's line before the cursor
LinePrefix == SubSeq(line, 1, position.character)

\* optional whitespace, then the three characters of the opener, then
\* optional whitespace and nothing else
IsIndentedOpener(s) ==
  \E i \in 0..Len(s) :
    /\ Len(s) >= i + 3
    /\ \A j \in 1..i : s[j] \in Whitespace
    /\ s[i + 1] = "/" /\ s[i + 2] = "*" /\ s[i + 3] = "*"
    /\ \A j \in (i + 4)..Len(s) : s[j] \in Whitespace

\* C4: provideCompletionItems returns a list with exactly one
\* JsdocCompletionItem if the line's text before the cursor is optional
\* whitespace, the opener and optional whitespace; for every other prefix
\* it returns null.
C4_OfferedExactlyAfterOpener ==
  completionItems.returned # "pending" =>
    IF IsIndentedOpener(LinePrefix)
      THEN /\ completionItems.returned = "list"
           /\ Len(completionItems.items) = 1
           /\ completionItems.items[1].command = "jsdoc-generator.generateJsdoc"
      ELSE /\ completionItems.returned = Null
           /\ completionItems.items = <<>>

\* the completion was offered on an indented line
C4_Witness ==
  /\ completionItems.returned = "list"
  /\ position.character > 3
  /\ line[1] \in Whitespace

\* the lengths n of a comment opener (a slash, stars, whitespace) that ends
\* at the cursor
OpenerLengths ==
  {n \in 1..position.character :
     LET s == SubSeq(line, position.character - n + 1, position.character)
     IN /\ s[1] = "/"
        /\ \E k \in 1..n : /\ \A j \in 2..k : s[j] = "*"
                           /\ \A j \in (k + 1)..n : s[j] \in Whitespace}

\* the lengths n of a comment closer (whitespace, stars, a slash) that
\* begins at the cursor
CloserLengths ==
  {n \in 1..(Len(line) - position.character) :
     LET s == SubSeq(line, position.character + 1, position.character + n)
     IN /\ s[n] = "/"
        /\ \E k \in 0..(n - 1) : /\ \A j \in 1..k : s[j] \in Whitespace
                                 /\ \A j \in (k + 1)..(n - 1) : s[j] = "*"}

LengthOf(S) == IF S = {} THEN 0 ELSE Max(S)

\* C8: the replacement range lies on the cursor's line with
\* start <= cursor <= end; start is the cursor moved left by the length of
\* the opener that ends at the cursor, end the cursor moved right by the
\* length of the closer that begins at it, a missing one moving by 0; when
\* the completion is offered, the item's range is that range and its start
\* is the column of the opener's slash, after the indentation.
C8_RangeAroundCursor ==
  LET r == RetrieveRange(line, position)
  IN /\ r.start.line = position.line /\ r.end.line = position.line
     /\ Cardinality(OpenerLengths) <= 1 /\ Cardinality(CloserLengths) <= 1
     /\ r.start.character = position.character - LengthOf(OpenerLengths)
     /\ r.end.character = position.character + LengthOf(CloserLengths)
     /\ r.start.character <= position.character
     /\ position.character <= r.end.character
     /\ r.start.character >= 0 /\ r.end.character <= Len(line)
     /\ completionItems.returned = "list" =>
          /\ completionItems.items[1].range = r
          /\ line[r.start.character + 1] = "/"
          /\ line[r.start.character + 2] = "*"
          /\ line[r.start.character + 3] = "*"
          /\ \A j \in 1..r.start.character : line[j] \in Whitespace

\* offered on an indented line whose comment is already closed
C8_Witness ==
  /\ completionItems.returned = "list"
  /\ completionItems.items[1].range.start.character > 0
  /\ completionItems.items[1].range.end.character > position.character

(***************************************************************************)
(* Properties of the command handlers, under SpecCommands                  *)
(***************************************************************************)
Invocations == 1..Len(invocations)
BatchCommands == {"generateJsdocFile", "generateJsdocFolder", "generateJsdocWorkspace"}

\* C5: generate-for-node shows an error message iff there is no active
\* editor, generate-for-file iff neither a file Uri was passed nor an
\* active editor exists, folder and workspace never; whenever the message
\* is shown the generator is not called and the progress task resolves.
C5_ErrorOnlyWithoutTarget ==
  /\ \A i \in Invocations :
       LET inv == invocations[i]
       IN /\ inv.cmd = "generateJsdoc" =>
               (inv.error # Null <=> inv.sawEditor = NoEditor)
          /\ inv.cmd = "generateJsdocFile" =>
               (inv.error # Null <=> (inv.arg = NoArg /\ inv.sawEditor = NoEditor))
          /\ inv.cmd \in {"generateJsdocFolder", "generateJsdocWorkspace"} =>
               inv.error = Null
          /\ inv.error # Null => (inv.calls = 0 /\ inv.call = NoCall /\ inv.task = "resolved")
          /\ inv.error = Null => inv.calls = 1
  /\ Len(errorMessages) = Cardinality({i \in Invocations : invocations[i].error # Null})

\* both messages were shown, and a file run started without an editor
C5_Witness ==
  /\ \E i \in Invocations :
       invocations[i].cmd = "generateJsdoc" /\ invocations[i].error # Null
  /\ \E i \in Invocations :
       /\ invocations[i].cmd = "generateJsdocFile"
       /\ invocations[i].sawEditor = NoEditor
       /\ invocations[i].error = Null

\* C9: generate-for-file uses the passed Uri with a new WorkspaceEdit
\* whenever one is passed, even if an active editor exists, and the active
\* editor only without a Uri; folder calls the workspace operation with the
\* selected folder and workspace calls it with no folder; an invocation
\* calls the generator at most once, with the progress reporter and the
\* token of its own cancellable progress task.
C9_FixedDispatch ==
  \A i \in Invocations :
    LET inv == invocations[i]
    IN /\ inv.calls <= 1
       /\ inv.cancellable
       /\ \A j \in Invocations : j # i =>
            inv.progress # invocations[j].progress /\ inv.token # invocations[j].token
       /\ inv.calls = 1 =>
            /\ inv.call.progress = inv.progress
            /\ inv.call.token = inv.token
            /\ inv.cmd = "generateJsdoc" =>
                 /\ inv.call.op = "generateJsdoc"
                 /\ inv.call.target = [kind |-> "editor", of |-> inv.sawEditor,
                                        workspaceEdit |-> <<"none", 0>>]
            /\ (inv.cmd = "generateJsdocFile" /\ inv.arg # NoArg) =>
                 /\ inv.call.op = "generateJsdocFile"
                 /\ inv.call.target = [kind |-> "TextFile", of |-> inv.arg,
                                        workspaceEdit |-> <<"WorkspaceEdit", i>>]
            /\ (inv.cmd = "generateJsdocFile" /\ inv.arg = NoArg) =>
                 /\ inv.call.op = "generateJsdocFile"
                 /\ inv.sawEditor # NoEditor
                 /\ inv.call.target = [kind |-> "TextFile", of |-> inv.sawEditor,
                                        workspaceEdit |-> <<"none", 0>>]
            /\ inv.cmd = "generateJsdocFolder" =>
                 /\ inv.call.op = "generateJsdocWorkspace"
                 /\ inv.call.target = [kind |-> "folder", of |-> inv.arg,
                                        workspaceEdit |-> <<"none", 0>>]
            /\ inv.cmd = "generateJsdocWorkspace" =>
                 /\ inv.call.op = "generateJsdocWorkspace"
                 /\ inv.call.target = [kind |-> "folder", of |-> NoArg,
                                        workspaceEdit |-> <<"none", 0>>]

\* a file Uri was passed while an editor was active, and a folder was selected
C9_Witness ==
  /\ \E i \in Invocations :
       /\ invocations[i].cmd = "generateJsdocFile"
       /\ invocations[i].arg # NoArg
       /\ invocations[i].sawEditor # NoEditor
       /\ invocations[i].calls = 1
  /\ \E i \in Invocations :
       invocations[i].cmd = "generateJsdocFolder" /\ invocations[i].arg # NoArg

\* C10: the JsdocGenerator is constructed at most once, every call to a
\* generator operation is made on the constructed instance, all invocations
\* use the same instance, and without an invocation nothing is constructed.
C10_OneLazyInstance ==
  /\ constructions <= 1
  /\ (jsdocGenerator = Undefined) <=> (constructions = 0)
  /\ invocations = <<>> <=> constructions = 0
  /\ \A i \in Invocations :
       invocations[i].calls = 1 =>
         /\ invocations[i].call.generator # Undefined
         /\ invocations[i].call.generator = jsdocGenerator

\* two suspended invocations called the one instance
C10_Witness ==
  /\ Len(invocations) >= 2
  /\ invocations[1].task = "pending" /\ invocations[2].task = "pending"
  /\ invocations[1].call.generator = invocations[2].call.generator
  /\ constructions = 1

\* a single-node and a batch invocation that are in progress together
Concurrent(i, j) ==
  /\ i # j
  /\ invocations[i].task = "pending" /\ invocations[j].task = "pending"
  /\ invocations[i].cmd = "generateJsdoc"
  /\ invocations[j].cmd \in BatchCommands

Touches(i) == invocations[i].reads \cup invocations[i].writes

\* C6 as stated: while a generate-for-node and a batch command are in
\* progress together, neither reads or writes an object the other writes.
C6_NoSharedState ==
  \A i, j \in Invocations :
    Concurrent(i, j) =>
      /\ Touches(i) \cap invocations[j].writes = {}
      /\ Touches(j) \cap invocations[i].writes = {}

\* C6 as amended: the only object of the command handlers that one
\* invocation writes and another reads or writes is the module-level
\* jsdocGenerator variable, which at most one invocation writes; the
\* progress reporter, token, WorkspaceEdit and TextFile are the invocation's
\* own.
C6_OnlyGeneratorVarShared ==
  /\ \A i, j \in Invocations :
       i # j => Touches(i) \cap invocations[j].writes \subseteq {GeneratorVar}
  /\ Cardinality({i \in Invocations : GeneratorVar \in invocations[i].writes}) <= 1
  /\ \A i \in Invocations :
       invocations[i].calls = 1 => GeneratorVar \in invocations[i].reads

\* a node and a batch invocation are in progress; one wrote the variable
\* the other read
C6_Witness ==
  \E i, j \in Invocations :
    /\ Concurrent(i, j)
    /\ GeneratorVar \in invocations[j].writes
    /\ GeneratorVar \in invocations[i].reads
    /\ invocations[j].call.target.workspaceEdit \in invocations[j].writes

CurrentValue(p) ==
  IF settings[KeyOf(p)] = NotStored THEN DefaultOf(p) ELSE settings[KeyOf(p)]

C1_NoDoubleDocumentation ==
  [][/\ \A j \in 1..Len(run'.edits) :
          documents[run'.edits[j].doc][run'.edits[j].decl].comments = <<>>
     /\ \A d \in 1..Len(documents) : \A k \in 1..Len(documents[d]) :
          /\ Len(documents'[d][k].comments) <= 1
          /\ documents[d][k].comments # <<>> =>
               documents'[d][k].comments = documents[d][k].comments]_vars

\* a workspace run over a document with a documented and an undocumented
\* declaration was applied
C1_Witness ==
  /\ run.pc = "applied"
  /\ Len(run.scope) = Len(documents)
  /\ \E d \in 1..Len(documents) : \E k, m \in 1..Len(documents[d]) :
       /\ documents[d][k].comments = <<"existing">>
       /\ documents[d][m].comments = <<"generated">>

\* the edits of a finished run are those of the undocumented declarations of
\* the first k documents of its scope, in the driver's order
EditsOfFirst(k) ==
  /\ \A j \in 1..Len(run.edits) :
       /\ \E m \in 1..k : run.edits[j].doc = run.scope[m]
       /\ documents[run.edits[j].doc][run.edits[j].decl].comments = <<>>
  /\ \A m \in 1..k : \A c \in 1..Len(documents[run.scope[m]]) :
       documents[run.scope[m]][c].comments = <<>> =>
         \E j \in 1..Len(run.edits) : run.edits[j] = [doc |-> run.scope[m], decl |-> c]
  /\ \A i, j \in 1..Len(run.edits) :
       i < j => \/ run.edits[i].doc < run.edits[j].doc
                \/ /\ run.edits[i].doc = run.edits[j].doc
                   /\ run.edits[i].decl < run.edits[j].decl

OffsetOf(s, c) ==
  IF \E j \in 1..Len(s) : s[j] = c
    THEN Min({j \in 1..Len(s) : s[j] = c}) - 1
    ELSE Fail

\* the offsets at which the lines of the block start the column marked by c
ColumnOffsets(c) ==
  {OffsetOf(rendered[i], c) : i \in 1..Len(rendered)} \ {Fail}

\* the width of what line s holds before offset o, trailing spaces aside
WidthBefore(s, o) ==
  LET used == {j \in 1..Len(s) : j <= o /\ s[j] # " "}
  IN IF used = {} THEN 0 ELSE Max(used)

\* the offset the block needs for a column: one past the widest text that
\* any line holds before it, and no less than the configured minimum
Needed(o, minimum) ==
  Floor(Max({WidthBefore(rendered[i], o) : i \in 1..Len(rendered)}) + 1, minimum)

AlignedAt(c, minimum) ==
  /\ Cardinality(ColumnOffsets(c)) <= 1
  /\ \A o \in ColumnOffsets(c) : o >= minimum /\ o = Needed(o, minimum)

\* C3: in a rendered block with at least two tag lines the type column, the
\* name column and the description column each start at one offset on every
\* line; the offset is the maximum width needed across the block's lines
\* and never below the configured minimum.
C3_ColumnsAligned ==
  Len(rendered) >= 2 =>
    /\ AlignedAt("{", renderConfig.tagValueColumnStart)
    /\ AlignedAt("N", renderConfig.tagNameColumnStart)
    /\ AlignedAt("D", renderConfig.tagDescriptionColumnStart)
    /\ \A i \in 1..Len(rendered) :
         /\ (tags[i].type # <<>>) <=> (OffsetOf(rendered[i], "{") # Fail)
         /\ (tags[i].name # <<>>) <=> (OffsetOf(rendered[i], "N") # Fail)
         /\ SelectSeq(rendered[i], LAMBDA x : x # " ")
              = tags[i].tag \o tags[i].type \o tags[i].name \o tags[i].description

\* a block whose two parameter lines differ in the widths of type and name,
\* with a minimum that is binding and one that is not
C3_Witness ==
  /\ Len(rendered) >= 2
  /\ Len(tags[1].type) # Len(tags[2].type)
  /\ Len(tags[1].name) # Len(tags[2].name)
  /\ tags[1].name # <<>> /\ tags[2].name # <<>>
  /\ renderConfig.tagNameColumnStart = 10
  /\ renderConfig.tagDescriptionColumnStart = 20

====
